---- MODULE Spec2Model ----
(***************************************************************************)
(* Connection lifecycle of the MT5 backend (src/server.js).                *)
(*                                                                         *)
(* Four HTTP handlers (connect, account-info, history, disconnect) are     *)
(* async functions; each suspends at every remote call.  A request flow    *)
(* is modelled as a process whose pc names the remote call it is awaiting. *)
(* One action = the remote call taking effect, its promise settling, and   *)
(* the synchronous code of the handler that runs up to the next await.     *)
(* The remote service (MetaApi) is the environment: it keeps the list of   *)
(* accounts, may reject any call, and connects / disconnects deployed      *)
(* accounts on its own.                                                    *)
(***************************************************************************)
EXTENDS Integers, Sequences, FiniteSets

(***************************************************************************)
(* Bounds of the model.                                                    *)
(***************************************************************************)
\* requests received over a run
MaxRequests == 2

\* the request flows that can be in flight at the same time; a flow that has
\* responded can take the next request
Flows == {1, 2}

(***************************************************************************)
(* JavaScript values that reach the handlers: strings (sequences of        *)
(* characters), numbers and undefined.                                     *)
(***************************************************************************)
Str(s) == [t |-> "string", s |-> s, n |-> 0]

Num(n) == [t |-> "number", s |-> <<>>, n |-> n]

Undefined == [t |-> "undefined", s |-> <<>>, n |-> 0]

\* !v is false exactly for the truthy values
Truthy(v) ==
    CASE v.t = "string" -> v.s # <<>>
      [] v.t = "number" -> v.n # 0
      [] OTHER -> FALSE

IsString(v) == v.t = "string"

DigitChar(d) == <<"0", "1", "2", "3", "4", "5", "6", "7", "8", "9">>[d + 1]

RECURSIVE NumToString(_)
NumToString(n) ==
    IF n < 10 THEN <<DigitChar(n)>>
    ELSE NumToString(n \div 10) \o <<DigitChar(n % 10)>>

\* login.toString(): a string is returned as is, a number in decimal
LoginToString(v) == IF v.t = "string" THEN v.s ELSE NumToString(v.n)

ToLowerChar(c) ==
    CASE c = "A" -> "a"
      [] c = "B" -> "b"
      [] c = "P" -> "p"
      [] OTHER -> c

ToLowerCaseIdentity(s) == s

\* String.prototype.toLowerCase
ToLowerCase(s) == [i \in DOMAIN s |-> ToLowerChar(s[i])]

(***************************************************************************)
(* Requests.                                                               *)
(***************************************************************************)
SrvLower == <<"a", "b">>

SrvUpper == <<"A", "b">>

SrvOther == <<"p", "b">>

Body(server, login, password) ==
    [server |-> server, login |-> login, password |-> password, accountId |-> 0,
     startDate |-> Undefined, endDate |-> Undefined]

ConnectBodies ==
    { Body(Str(SrvLower), Str(<<"7">>), Str(<<"p">>)),
      Body(Str(SrvUpper), Str(<<"7">>), Str(<<"q">>)),
      Body(Str(SrvLower), Str(<<"7">>), Str(<<"q">>)),
      Body(Str(SrvLower), Num(7), Str(<<"p">>)),
      Body(Str(SrvOther), Str(<<"7">>), Str(<<"p">>)),
      Body(Num(5), Str(<<"7">>), Str(<<"p">>)),
      Body(Str(<<>>), Str(<<"7">>), Str(<<"p">>)),
      Body(Undefined, Str(<<"7">>), Str(<<"p">>)),
      Body(Str(SrvLower), Num(0), Str(<<"p">>)),
      Body(Str(SrvLower), Undefined, Str(<<"p">>)),
      Body(Str(SrvLower), Str(<<"7">>), Str(<<>>)),
      Body(Str(SrvLower), Str(<<"7">>), Undefined) }

\* accountId of a query or body; NoId stands for a missing accountId
NoId == 0

Query(accountId) ==
    [server |-> Undefined, login |-> Undefined, password |-> Undefined,
     accountId |-> accountId, startDate |-> Undefined, endDate |-> Undefined]

\* the query string of a history request; a date is written as its day
\* number in decimal digits
HistoryQueryString(accountId, startDate, endDate) ==
    [Query(accountId) EXCEPT !.startDate = startDate, !.endDate = endDate]

\* the startDate and endDate requests carry: both omitted, or a start day
\* that is after the end day
DateRanges == { <<Undefined, Undefined>>, <<Str(<<"5", "0">>), Str(<<"2", "0">>)>> }

NoRequest == Query(NoId)

(***************************************************************************)
(* The remote service's accounts.  An account's id is its position in the  *)
(* list, so ids are unique and the list order is the creation order.       *)
(***************************************************************************)
Account(id, server, login, state, connected) ==
    [id |-> id, server |-> server, login |-> login, state |-> state,
     connected |-> connected]

InitialAccounts ==
    { <<>>,
      <<Account(1, SrvLower, <<"7">>, "UNDEPLOYED", FALSE)>>,
      <<Account(1, SrvLower, <<"7">>, "DEPLOYING", FALSE)>>,
      <<Account(1, SrvUpper, <<"7">>, "DEPLOYED", TRUE)>> }

\* the account object a flow holds: the remote record as it was when fetched
NoAccount == [id |-> NoId, deployed |-> FALSE, connected |-> FALSE]

Handle(acc) ==
    [id |-> acc.id, deployed |-> acc.state = "DEPLOYED", connected |-> acc.connected]

VARIABLES accounts, kind, req, pc, account, calls, response, requests,
          startedAfter, overlapped, matchesAtLookup, undeployedSince,
          sent, sentQuery

vars == <<accounts, kind, req, pc, account, calls, response, requests,
          startedAfter, overlapped, matchesAtLookup, undeployedSince,
          sent, sentQuery>>

\* what the flows know and the bookkeeping of the run, apart from accounts
locals == <<kind, req, pc, account, calls, response, requests,
            startedAfter, overlapped, matchesAtLookup, undeployedSince,
            sent, sentQuery>>

\* the query object of getHistoryOrdersByTimeRange, before one is built
NoQuery == [startTime |-> 0, endTime |-> 0, limit |-> 0]

NoResponse == [status |-> 0, success |-> FALSE, fields |-> {}, accountId |-> NoId, info |-> NoId]

Init ==
    /\ accounts \in InitialAccounts
    /\ kind = [f \in Flows |-> "none"]
    /\ req = [f \in Flows |-> NoRequest]
    /\ pc = [f \in Flows |-> "idle"]
    /\ account = [f \in Flows |-> NoAccount]
    /\ calls = [f \in Flows |-> <<>>]
    /\ response = [f \in Flows |-> NoResponse]
    /\ startedAfter = [f \in Flows |-> {}]
    /\ matchesAtLookup = [f \in Flows |-> 0]
    /\ overlapped = [f \in Flows |-> FALSE]
    /\ undeployedSince = [f \in Flows |-> FALSE]
    /\ requests = 0
    /\ sent = [f \in Flows |-> 0]
    /\ sentQuery = [f \in Flows |-> NoQuery]

(***************************************************************************)
(* Helpers shared by the handlers.                                         *)
(***************************************************************************)
Call(op, id, ok) == [op |-> op, id |-> id, ok |-> ok]

FailureWithoutError(status) ==
    [status |-> status, success |-> FALSE, fields |-> {"success"},
     accountId |-> NoId, info |-> NoId]

Failure(status) ==
    [status |-> status, success |-> FALSE, fields |-> {"success", "error"},
     accountId |-> NoId, info |-> NoId]

Finished(f) == {g \in Flows \ {f} : pc[g] = "done"}

InFlight(f) == pc[f] \notin {"idle", "done"}

\* a request arrives: flow f starts on it with fresh locals; invalid tells
\* whether the handler's first check answers 400 at once, first is the await
\* it reaches otherwise
Arrive(f, k, r, invalid, first) ==
    /\ pc[f] \in {"idle", "done"}
    /\ \A g \in Flows : g < f => pc[g] # "idle"
    /\ requests < MaxRequests
    /\ requests' = requests + 1
    /\ kind' = [kind EXCEPT ![f] = k]
    /\ req' = [req EXCEPT ![f] = r]
    /\ account' = [account EXCEPT ![f] = NoAccount]
    /\ calls' = [calls EXCEPT ![f] = <<>>]
    /\ matchesAtLookup' = [matchesAtLookup EXCEPT ![f] = 0]
    /\ overlapped' = [g \in Flows |-> IF g = f THEN \E h \in Flows \ {f} : InFlight(h)
                                      ELSE overlapped[g] \/ InFlight(g)]
    /\ startedAfter' = [g \in Flows |-> IF g = f THEN Finished(f)
                                        ELSE startedAfter[g] \ {f}]
    /\ response' = [response EXCEPT ![f] = IF invalid THEN Failure(400) ELSE NoResponse]
    /\ pc' = [pc EXCEPT ![f] = IF invalid THEN "done" ELSE first]
    /\ undeployedSince' = [undeployedSince EXCEPT ![f] = FALSE]
    /\ sent' = [sent EXCEPT ![f] = IF invalid THEN 1 ELSE 0]
    /\ sentQuery' = [sentQuery EXCEPT ![f] = NoQuery]
    /\ UNCHANGED accounts

\* the callback of accounts.find: throws a TypeError when server has no
\* toLowerCase, which && reaches only once the login has matched
RECURSIVE FindFrom(_, _, _, _)
FindFrom(accs, i, login, server) ==
    IF i > Len(accs) THEN [threw |-> FALSE, idx |-> 0]
    ELSE IF accs[i].login = LoginToString(login)
         THEN IF ~IsString(server) THEN [threw |-> TRUE, idx |-> 0]
              ELSE IF ToLowerCase(accs[i].server) = ToLowerCase(server.s)
                   THEN [threw |-> FALSE, idx |-> i]
                   ELSE FindFrom(accs, i + 1, login, server)
         ELSE FindFrom(accs, i + 1, login, server)

FindByLogin(accs, login, server) ==
    LET same == {i \in DOMAIN accs : accs[i].login = LoginToString(login)}
    IN  IF same = {} THEN [threw |-> FALSE, idx |-> 0]
        ELSE [threw |-> FALSE, idx |-> CHOOSE i \in same : \A j \in same : i <= j]

Find(accs, login, server) == FindFrom(accs, 1, login, server)

\* two characters that are the same letter in either case
SameLetter(c, d) ==
    \/ c = d
    \/ {c, d} \in {{"a", "A"}, {"b", "B"}, {"p", "P"}}

EqualIgnoringCase(s1, s2) ==
    /\ Len(s1) = Len(s2)
    /\ \A i \in DOMAIN s1 : SameLetter(s1[i], s2[i])

\* an account equivalent to the requested pair: login equal, server equal
\* ignoring case
Equivalent(acc, b) ==
    /\ IsString(b.server)
    /\ acc.login = LoginToString(b.login)
    /\ EqualIgnoringCase(acc.server, b.server.s)

MissingFields(b) == ~Truthy(b.server) \/ ~Truthy(b.login) \/ ~Truthy(b.password)

AlwaysDeploy(h) == TRUE

NeedsDeploy(h) == ~h.deployed

AlwaysRemediate(h) == TRUE

NeedsRemediation(h) == ~h.connected

\* the await reached after the account object is in hand
DeployStage(h) == IF NeedsDeploy(h) THEN "deploy" ELSE "waitConnected"

RemoveOnUndeploy(accs, id, state, connected) ==
    IF state = "UNDEPLOYED"
    THEN SubSeq(accs, 1, id - 1) \o SubSeq(accs, id + 1, Len(accs))
    ELSE [accs EXCEPT ![id] = [@ EXCEPT !.state = state, !.connected = connected]]

SetState(accs, id, state, connected) ==
    [accs EXCEPT ![id] = [@ EXCEPT !.state = state, !.connected = connected]]

Known(id) == id \in DOMAIN accounts

(***************************************************************************)
(* POST /api/mt5/connect                                                   *)
(***************************************************************************)
ConnectRequest(f, b) == Arrive(f, "connect", b, MissingFields(b), "getAccounts")

\* the lookup's try block yielded an account
Found(ok, r) == ok /\ ~r.threw /\ r.idx # 0

AlwaysCreate(ok, r) == "createAccount"

LookupFailureFatal(ok, r) ==
    IF ~ok THEN "done"
    ELSE IF Found(ok, r) THEN DeployStage(Handle(accounts[r.idx])) ELSE "createAccount"

\* the catch of the lookup only logs, and if (!account) decides the next stage
AfterLookup(ok, r) ==
    IF Found(ok, r) THEN DeployStage(Handle(accounts[r.idx])) ELSE "createAccount"

ConnectGetAccounts(f) ==
    /\ kind[f] = "connect"
    /\ pc[f] = "getAccounts"
    /\ \E ok \in BOOLEAN :
          LET r == Find(accounts, req[f].login, req[f].server)
          IN  /\ calls' = [calls EXCEPT ![f] = Append(@, Call("getAccounts", NoId, ok))]
              /\ account' = [account EXCEPT ![f] =
                                IF Found(ok, r) THEN Handle(accounts[r.idx]) ELSE NoAccount]
              /\ pc' = [pc EXCEPT ![f] = AfterLookup(ok, r)]
    /\ matchesAtLookup' = [matchesAtLookup EXCEPT ![f] =
                              Cardinality({i \in DOMAIN accounts :
                                              Equivalent(accounts[i], req[f])})]
    /\ UNCHANGED <<accounts, kind, req, response, requests, startedAfter, overlapped,
                 undeployedSince, sent, sentQuery>>

\* the remote service rejects an account whose server is not a string
ConnectCreateAccount(f) ==
    /\ kind[f] = "connect"
    /\ pc[f] = "createAccount"
    /\ \E ok \in BOOLEAN :
          /\ ok => IsString(req[f].server)
          /\ IF ok
             THEN LET new == Account(Len(accounts) + 1, req[f].server.s,
                                     LoginToString(req[f].login), "UNDEPLOYED", FALSE)
                  IN  /\ accounts' = Append(accounts, new)
                      /\ account' = [account EXCEPT ![f] = Handle(new)]
                      /\ calls' = [calls EXCEPT ![f] =
                                      Append(@, Call("createAccount", new.id, TRUE))]
                      /\ pc' = [pc EXCEPT ![f] = DeployStage(Handle(new))]
                      /\ UNCHANGED <<response, sent>>
             ELSE /\ calls' = [calls EXCEPT ![f] =
                                  Append(@, Call("createAccount", NoId, FALSE))]
                  /\ response' = [response EXCEPT ![f] = Failure(500)]
                  /\ sent' = [sent EXCEPT ![f] = @ + 1]
                  /\ pc' = [pc EXCEPT ![f] = "done"]
                  /\ UNCHANGED <<accounts, account>>
    /\ UNCHANGED <<kind, req, requests, startedAfter, overlapped, matchesAtLookup,
                 undeployedSince, sentQuery>>

(***************************************************************************)
(* The deploy / waitConnected stage, the same code in connect,             *)
(* account-info and history but for the status of the failure response.    *)
(***************************************************************************)
AfterDeployFallsThrough(ok) == "waitConnected"

AfterDeploy(ok) == IF ok THEN "waitConnected" ELSE "done"

AfterWaitNeverResponds(ok) == IF ok THEN "query" ELSE "hung"

AfterWaitFallsThrough(ok) == "query"

AfterWait(ok) == IF ok THEN "query" ELSE "done"

DeployStep(f, failStatus) ==
    /\ pc[f] = "deploy"
    /\ \E ok \in BOOLEAN :
          /\ calls' = [calls EXCEPT ![f] = Append(@, Call("deploy", account[f].id, ok))]
          /\ accounts' = IF ok THEN SetState(accounts, account[f].id, "DEPLOYED",
                                             accounts[account[f].id].connected)
                         ELSE accounts
          /\ pc' = [pc EXCEPT ![f] = AfterDeploy(ok)]
          /\ response' = [response EXCEPT ![f] = IF ok THEN @ ELSE Failure(failStatus)]
          /\ sent' = [sent EXCEPT ![f] = IF ok THEN @ ELSE @ + 1]
    /\ UNCHANGED <<kind, req, account, requests, startedAfter, overlapped, matchesAtLookup,
                 undeployedSince, sentQuery>>

\* waitConnected resolves only if the account is seen connected; it rejects
\* on timeout or on an error of the remote service
WaitStep(f, failStatus) ==
    /\ pc[f] = "waitConnected"
    /\ \E ok \in BOOLEAN :
          /\ ok => accounts[account[f].id].connected
          /\ calls' = [calls EXCEPT ![f] =
                          Append(@, Call("waitConnected", account[f].id, ok))]
          /\ pc' = [pc EXCEPT ![f] = AfterWait(ok)]
          /\ response' = [response EXCEPT ![f] = IF ok THEN @ ELSE Failure(failStatus)]
          /\ sent' = [sent EXCEPT ![f] = IF ok THEN @ ELSE @ + 1]
    /\ UNCHANGED <<accounts, kind, req, account, requests, startedAfter, overlapped,
                 matchesAtLookup, undeployedSince, sentQuery>>

\* the information query through the RPC connection and the final response
QueryStep(f, op, success) ==
    /\ pc[f] = "query"
    /\ \E ok \in BOOLEAN :
          /\ calls' = [calls EXCEPT ![f] = Append(@, Call(op, account[f].id, ok))]
          /\ response' = [response EXCEPT ![f] = IF ok THEN success ELSE Failure(500)]
    /\ sent' = [sent EXCEPT ![f] = @ + 1]
    /\ pc' = [pc EXCEPT ![f] = "done"]
    /\ UNCHANGED <<accounts, kind, req, account, requests, startedAfter, overlapped,
                 matchesAtLookup, undeployedSince>>

ConnectDeploy(f) == kind[f] = "connect" /\ DeployStep(f, 500)

ConnectWaitConnected(f) == kind[f] = "connect" /\ WaitStep(f, 500)

ConnectSuccessWithoutId(f) ==
    [status |-> 200, success |-> TRUE, fields |-> {"success", "accountInfo", "message"},
     accountId |-> NoId, info |-> account[f].id]

ConnectSuccess(f) ==
    [status |-> 200, success |-> TRUE,
     fields |-> {"success", "accountId", "accountInfo", "message"},
     accountId |-> account[f].id, info |-> account[f].id]

ConnectGetAccountInformation(f) ==
    /\ kind[f] = "connect"
    /\ QueryStep(f, "getAccountInformation", ConnectSuccess(f))
    /\ UNCHANGED sentQuery

(***************************************************************************)
(* GET /api/mt5/account-info and GET /api/mt5/history                      *)
(***************************************************************************)
\* if (!account.connected) { deploy if needed; waitConnected(30) }
Remediation(h) == IF NeedsRemediation(h) THEN DeployStage(h) ELSE "query"

\* the await that follows getAccount: disconnect undeploys unconditionally
AfterGetAccountSkipsUndeployed(k, h) ==
    IF k = "disconnect" THEN (IF h.deployed THEN "undeploy" ELSE "done")
    ELSE Remediation(h)

AfterGetAccount(k, h) == IF k = "disconnect" THEN "undeploy" ELSE Remediation(h)

NotFound ==
    [status |-> 404, success |-> FALSE, fields |-> {"success", "error"},
     accountId |-> NoId, info |-> NoId]

MissingId(id) == id = NoId

IdRequest(f, k, id) == Arrive(f, k, Query(id), MissingId(id), "getAccount")

\* getAccount resolves with the account, resolves with nothing, or rejects;
\* for an id the remote service does not know it cannot resolve with an
\* account, and for one it knows it does not resolve with nothing
GetAccountStep(f) ==
    /\ pc[f] = "getAccount"
    /\ \E outcome \in {"account", "nothing", "rejected"} :
          /\ outcome = "account" => Known(req[f].accountId)
          /\ outcome = "nothing" => ~Known(req[f].accountId)
          /\ calls' = [calls EXCEPT ![f] =
                          Append(@, Call("getAccount", req[f].accountId,
                                         outcome # "rejected"))]
          /\ CASE outcome = "account" ->
                    /\ account' = [account EXCEPT ![f] =
                                      Handle(accounts[req[f].accountId])]
                    /\ pc' = [pc EXCEPT ![f] =
                                 AfterGetAccount(kind[f], Handle(accounts[req[f].accountId]))]
                    /\ UNCHANGED <<response, sent>>
               [] outcome = "nothing" ->
                    /\ response' = [response EXCEPT ![f] = NotFound]
                    /\ sent' = [sent EXCEPT ![f] = @ + 1]
                    /\ pc' = [pc EXCEPT ![f] = "done"]
                    /\ UNCHANGED account
               [] outcome = "rejected" ->
                    /\ response' = [response EXCEPT ![f] = Failure(500)]
                    /\ sent' = [sent EXCEPT ![f] = @ + 1]
                    /\ pc' = [pc EXCEPT ![f] = "done"]
                    /\ UNCHANGED account
    /\ UNCHANGED <<accounts, kind, req, requests, startedAfter, overlapped, matchesAtLookup,
                 undeployedSince, sentQuery>>


InfoRequest(f, id) == IdRequest(f, "info", id)

InfoGetAccount(f) == kind[f] = "info" /\ GetAccountStep(f)

InfoDeploy(f) == kind[f] = "info" /\ DeployStep(f, 400)

InfoWaitConnected(f) == kind[f] = "info" /\ WaitStep(f, 400)

InfoSuccess(f) ==
    [status |-> 200, success |-> TRUE,
     fields |-> {"success", "accountInfo", "message"},
     accountId |-> NoId, info |-> account[f].id]

InfoGetAccountInformation(f) ==
    /\ kind[f] = "info"
    /\ QueryStep(f, "getAccountInformation", InfoSuccess(f))
    /\ UNCHANGED sentQuery

HistoryRequest(f, id, startDate, endDate) ==
    Arrive(f, "history", HistoryQueryString(id, startDate, endDate), MissingId(id),
           "getAccount")

HistoryGetAccount(f) == kind[f] = "history" /\ GetAccountStep(f)

HistoryDeploy(f) == kind[f] = "history" /\ DeployStep(f, 400)

HistoryWaitConnected(f) == kind[f] = "history" /\ WaitStep(f, 400)

HistorySuccess(f) ==
    [status |-> 200, success |-> TRUE,
     fields |-> {"success", "history", "message"},
     accountId |-> NoId, info |-> account[f].id]

\* the clock, in days: Date.now() and new Date()
Now == 40

\* 30 * 24 * 60 * 60 * 1000 milliseconds, in days
DefaultWindow == 30

Limit == 1000

DigitValue(c) ==
    CASE c = "0" -> 0 [] c = "1" -> 1 [] c = "2" -> 2 [] c = "3" -> 3 [] c = "4" -> 4
      [] c = "5" -> 5 [] c = "6" -> 6 [] c = "7" -> 7 [] c = "8" -> 8 [] c = "9" -> 9

RECURSIVE DateFrom(_, _)
\* new Date(string): the day a digit string denotes, read left to right
DateFrom(s, i) ==
    IF i = 0 THEN 0 ELSE 10 * DateFrom(s, i - 1) + DigitValue(s[i])

NewDate(v) == DateFrom(v.s, Len(v.s))

StartTimeNoDefault(startDate) ==
    IF Truthy(startDate) THEN NewDate(startDate) ELSE 0

StartTime(startDate) ==
    IF Truthy(startDate) THEN NewDate(startDate) ELSE Now - DefaultWindow

EndTime(endDate) ==
    IF Truthy(endDate) THEN NewDate(endDate) ELSE Now

TimeRange(q) ==
    [startTime |-> StartTime(q.startDate), endTime |-> EndTime(q.endDate),
     limit |-> Limit]

HistoryGetOrders(f) ==
    /\ kind[f] = "history"
    /\ QueryStep(f, "getHistoryOrdersByTimeRange", HistorySuccess(f))
    /\ sentQuery' = [sentQuery EXCEPT ![f] = TimeRange(req[f])]

(***************************************************************************)
(* POST /api/mt5/disconnect                                                *)
(***************************************************************************)
DisconnectRequest(f, id) == IdRequest(f, "disconnect", id)

DisconnectGetAccount(f) == kind[f] = "disconnect" /\ GetAccountStep(f)

DisconnectSuccess ==
    [status |-> 200, success |-> TRUE, fields |-> {"success", "message"},
     accountId |-> NoId, info |-> NoId]

DisconnectUndeploy(f) ==
    /\ kind[f] = "disconnect"
    /\ pc[f] = "undeploy"
    /\ \E ok \in BOOLEAN :
          /\ calls' = [calls EXCEPT ![f] = Append(@, Call("undeploy", account[f].id, ok))]
          /\ accounts' = IF ok THEN SetState(accounts, account[f].id, "UNDEPLOYED", FALSE)
                         ELSE accounts
          /\ response' = [response EXCEPT ![f] =
                             IF ok THEN DisconnectSuccess ELSE Failure(500)]
    /\ pc' = [pc EXCEPT ![f] = "done"]
    /\ undeployedSince' = [g \in Flows |-> TRUE]
    /\ sent' = [sent EXCEPT ![f] = @ + 1]
    /\ UNCHANGED <<kind, req, account, requests, startedAfter, overlapped, matchesAtLookup,
                 sentQuery>>

(***************************************************************************)
(* The remote service acting on its own.                                   *)
(***************************************************************************)
RemoteDeployCompletes(i) ==
    /\ accounts[i].state = "DEPLOYING"
    /\ accounts' = SetState(accounts, i, "DEPLOYED", FALSE)
    /\ UNCHANGED locals

RemoteConnects(i) ==
    /\ accounts[i].state = "DEPLOYED"
    /\ ~accounts[i].connected
    /\ accounts' = SetState(accounts, i, "DEPLOYED", TRUE)
    /\ UNCHANGED locals

RemoteDisconnects(i) ==
    /\ accounts[i].connected
    /\ accounts' = SetState(accounts, i, accounts[i].state, FALSE)
    /\ UNCHANGED locals

\* a missing accountId, the ids of the first two accounts, and an id the
\* remote service never assigns
AccountIds == {NoId, 1, 2, 99}

Next ==
    \/ \E f \in Flows, b \in ConnectBodies : ConnectRequest(f, b)
    \/ \E f \in Flows : ConnectGetAccounts(f)
    \/ \E f \in Flows : ConnectCreateAccount(f)
    \/ \E f \in Flows : ConnectDeploy(f)
    \/ \E f \in Flows : ConnectWaitConnected(f)
    \/ \E f \in Flows : ConnectGetAccountInformation(f)
    \/ \E f \in Flows, id \in AccountIds : InfoRequest(f, id)
    \/ \E f \in Flows : InfoGetAccount(f)
    \/ \E f \in Flows : InfoDeploy(f)
    \/ \E f \in Flows : InfoWaitConnected(f)
    \/ \E f \in Flows : InfoGetAccountInformation(f)
    \/ \E f \in Flows, id \in AccountIds, range \in DateRanges :
          HistoryRequest(f, id, range[1], range[2])
    \/ \E f \in Flows : HistoryGetAccount(f)
    \/ \E f \in Flows : HistoryDeploy(f)
    \/ \E f \in Flows : HistoryWaitConnected(f)
    \/ \E f \in Flows : HistoryGetOrders(f)
    \/ \E f \in Flows, id \in AccountIds : DisconnectRequest(f, id)
    \/ \E f \in Flows : DisconnectGetAccount(f)
    \/ \E f \in Flows : DisconnectUndeploy(f)
    \/ \E i \in DOMAIN accounts : RemoteDeployCompletes(i)
    \/ \E i \in DOMAIN accounts : RemoteConnects(i)
    \/ \E i \in DOMAIN accounts : RemoteDisconnects(i)

Spec == Init /\ [][Next]_vars

\* the continuation of flow f after the await it is suspended at
FlowStep(f) ==
    \/ ConnectGetAccounts(f)
    \/ ConnectCreateAccount(f)
    \/ ConnectDeploy(f)
    \/ ConnectWaitConnected(f)
    \/ ConnectGetAccountInformation(f)
    \/ InfoGetAccount(f)
    \/ InfoDeploy(f)
    \/ InfoWaitConnected(f)
    \/ InfoGetAccountInformation(f)
    \/ HistoryGetAccount(f)
    \/ HistoryDeploy(f)
    \/ HistoryWaitConnected(f)
    \/ HistoryGetOrders(f)
    \/ DisconnectGetAccount(f)
    \/ DisconnectUndeploy(f)

\* every remote call settles: a promise that is awaited resolves or rejects,
\* waitConnected at the latest when its timeout elapses, and the event loop
\* then runs the continuation
\* the remote service holds one account, which is being deployed
FairInit == Init /\ accounts # <<>> /\ accounts[1].state = "DEPLOYING"

FairSpec == FairInit /\ [][Next]_vars /\ \A f \in Flows : WF_vars(FlowStep(f))

(***************************************************************************)
(* Vocabulary of the properties.                                           *)
(***************************************************************************)
Ops(f) == [i \in DOMAIN calls[f] |-> calls[f][i].op]

Count(f, op) == Cardinality({i \in DOMAIN calls[f] : calls[f][i].op = op})

CountOk(f, op) ==
    Cardinality({i \in DOMAIN calls[f] : calls[f][i].op = op /\ calls[f][i].ok})

AllOk(f, op) == \A i \in DOMAIN calls[f] : calls[f][i].op = op => calls[f][i].ok

Responded(f) == pc[f] = "done"

ValidConnect(f) == kind[f] = "connect" /\ ~MissingFields(req[f])

\* two connect bodies for an equivalent (server, login) pair
SamePair(b1, b2) ==
    /\ IsString(b1.server) /\ IsString(b2.server)
    /\ LoginToString(b1.login) = LoginToString(b2.login)
    /\ EqualIgnoringCase(b1.server.s, b2.server.s)

\* g's request arrived after f had responded, and neither request had another
\* request in flight beside it
OneAfterTheOther(f, g) ==
    /\ f \in startedAfter[g]
    /\ ~overlapped[f] /\ ~overlapped[g]

(***************************************************************************)
(* C1.  Concurrent connect requests for an equivalent (server, login)      *)
(* pair, whose account listings all succeeded, never both create an        *)
(* account: at most one createAccount call succeeds between them, so the   *)
(* remote service gets no duplicate for the pair.                          *)
(***************************************************************************)
C1_NoDuplicateCreate ==
    \A f, g \in Flows :
        ( /\ f # g
          /\ ValidConnect(f) /\ ValidConnect(g)
          /\ SamePair(req[f], req[g])
          /\ AllOk(f, "getAccounts") /\ AllOk(g, "getAccounts") )
        => CountOk(f, "createAccount") + CountOk(g, "createAccount") <= 1

(***************************************************************************)
(* C2.  Two connect requests, one after the other, for an equivalent pair  *)
(* of which the remote service holds at most one account: both end with    *)
(* the same account, and exactly one createAccount call is issued across   *)
(* the two, none when the account was already there.                       *)
(***************************************************************************)
SequentialConnects(f, g) ==
    /\ f # g
    /\ OneAfterTheOther(f, g)
    /\ ValidConnect(f) /\ ValidConnect(g)
    /\ Responded(f) /\ Responded(g)
    /\ SamePair(req[f], req[g])
    /\ matchesAtLookup[f] <= 1

SameAccountOneCreate(f, g) ==
    /\ account[f].id # NoId
    /\ account[f].id = account[g].id
    /\ Count(f, "createAccount") + Count(g, "createAccount")
          = IF matchesAtLookup[f] = 1 THEN 0 ELSE 1

C3_AtMostOneDeploy ==
    \A f, g \in Flows :
        ( /\ f # g
          /\ f \notin startedAfter[g] /\ g \notin startedAfter[f]
          /\ account[f].id # NoId
          /\ account[f].id = account[g].id )
        => CountOk(f, "deploy") + CountOk(g, "deploy") <= 1

(***************************************************************************)
(* C4.  A flow that holds the account as Deployed issues no deploy call,   *)
(* and two flows run one after the other on the same account, with no      *)
(* undeploy in between, issue at most one deploy call in total.            *)
(***************************************************************************)
NoDeployWhenDeployed ==
    \A f \in Flows :
        account[f].deployed => pc[f] # "deploy" /\ Count(f, "deploy") = 0

SequentialOnSameAccount(f, g) ==
    /\ f # g
    /\ OneAfterTheOther(f, g)
    /\ kind[f] # "disconnect" /\ kind[g] # "disconnect"
    /\ ~undeployedSince[f]
    /\ Responded(f) /\ Responded(g)
    /\ account[f].id # NoId
    /\ account[f].id = account[g].id

C4_Original ==
    /\ NoDeployWhenDeployed
    /\ \A f, g \in Flows :
          SequentialOnSameAccount(f, g) => Count(f, "deploy") + Count(g, "deploy") <= 1

\* C4 as amended: at most one deploy call in total unless the first flow's
\* deploy call failed
C4_DeployIdempotent ==
    /\ NoDeployWhenDeployed
    /\ \A f, g \in Flows :
          (SequentialOnSameAccount(f, g) /\ AllOk(f, "deploy"))
          => Count(f, "deploy") + Count(g, "deploy") <= 1

\* the first flow deployed the account, the second found it deployed
C4_Witness ==
    \E f, g \in Flows :
        /\ SequentialOnSameAccount(f, g)
        /\ CountOk(f, "deploy") = 1
        /\ account[g].deployed
        /\ Count(g, "waitConnected") = 1
        /\ Count(g, "deploy") = 0

(***************************************************************************)
(* C5.  A connect request with all three fields, that found no equivalent  *)
(* account and all of whose remote calls succeeded, has issued exactly     *)
(* getAccounts, createAccount, deploy, waitConnected and                   *)
(* getAccountInformation, once each, and answers success:true with the id  *)
(* of the account it created and the account snapshot.                     *)
(***************************************************************************)
FreshConnectDone(f) ==
    /\ ValidConnect(f)
    /\ Responded(f)
    /\ matchesAtLookup[f] = 0
    /\ \A i \in DOMAIN calls[f] : calls[f][i].ok

C5_FreshConnect ==
    \A f \in Flows :
        FreshConnectDone(f) =>
            /\ Ops(f) = <<"getAccounts", "createAccount", "deploy", "waitConnected",
                          "getAccountInformation">>
            /\ response[f].status = 200
            /\ response[f].success
            /\ response[f].accountId = calls[f][2].id
            /\ response[f].accountId \in DOMAIN accounts
            /\ Equivalent(accounts[response[f].accountId], req[f])
            /\ response[f].info = response[f].accountId
            /\ {"accountId", "accountInfo"} \subseteq response[f].fields

C5_Witness ==
    \E f \in Flows :
        /\ FreshConnectDone(f)
        /\ response[f].success
        /\ Count(f, "createAccount") = 1

(***************************************************************************)
(* C6.  In every flow the remote calls follow the order lookup, create,    *)
(* deploy, waitConnected, information query, and an information query is   *)
(* issued only after a waitConnected of the flow has returned successfully *)
(* or, in account-info and history, after the flow has seen the account    *)
(* connected.                                                              *)
(***************************************************************************)
QueryOps == {"getAccountInformation", "getHistoryOrdersByTimeRange"}

StageRank(op) ==
    CASE op \in {"getAccounts", "getAccount"} -> 1
      [] op = "createAccount" -> 2
      [] op \in {"deploy", "undeploy"} -> 3
      [] op = "waitConnected" -> 4
      [] op \in QueryOps -> 5

WaitedBefore(f, i) ==
    \E j \in 1..(i - 1) : calls[f][j].op = "waitConnected" /\ calls[f][j].ok

C6_StagesInOrder ==
    \A f \in Flows :
        /\ \A i, j \in DOMAIN calls[f] :
              i < j => /\ StageRank(calls[f][i].op) < StageRank(calls[f][j].op)
                       /\ calls[f][i].ok \/ calls[f][i].op = "getAccounts"
        /\ \A i \in DOMAIN calls[f] :
              calls[f][i].op \in QueryOps =>
                  \/ WaitedBefore(f, i)
                  \/ kind[f] # "connect" /\ account[f].connected

\* a history flow that deployed, waited and then queried
C6_Witness ==
    \E f \in Flows :
        Ops(f) = <<"getAccount", "deploy", "waitConnected", "getHistoryOrdersByTimeRange">>

(***************************************************************************)
(* C7.  A failed createAccount, deploy, waitConnected or getAccount is the *)
(* last remote call of its flow, and the flow has answered success:false.  *)
(***************************************************************************)
FatalOps == {"createAccount", "deploy", "waitConnected", "getAccount"}

C7_ShortCircuit ==
    \A f \in Flows :
        \A i \in DOMAIN calls[f] :
            (calls[f][i].op \in FatalOps /\ ~calls[f][i].ok) =>
                /\ i = Len(calls[f])
                /\ Responded(f)
                /\ ~response[f].success
                /\ response[f].status \in {400, 500}

\* a deploy failed in a connect flow and in an account-info flow
C7_Witness ==
    \E f, g \in Flows :
        /\ kind[f] = "connect" /\ kind[g] = "info"
        /\ Ops(f) = <<"getAccounts", "createAccount", "deploy">>
        /\ ~calls[f][3].ok
        /\ Ops(g) = <<"getAccount", "deploy">>
        /\ ~calls[g][2].ok

(***************************************************************************)
(* C8.  An account-info, history or disconnect request for an accountId    *)
(* the remote service does not know is answered 404, after no deploy,      *)
(* waitConnected, undeploy or information query.                           *)
(***************************************************************************)
C8_UnknownIs404 ==
    \A f \in Flows :
        ( /\ kind[f] \in {"info", "history", "disconnect"}
          /\ Responded(f)
          /\ req[f].accountId # NoId
          /\ ~Known(req[f].accountId) )
        => /\ response[f].status = 404
           /\ Ops(f) = <<"getAccount">>

(***************************************************************************)
(* C9.  An account-info or history flow that got its account: if it saw    *)
(* the account not connected it issues at most one deploy call and exactly *)
(* one waitConnected call, none of them after the information query; if it *)
(* saw the account connected it issues neither.                            *)
(***************************************************************************)
GotAccount(f) ==
    /\ kind[f] \in {"info", "history"}
    /\ Responded(f)
    /\ account[f].id # NoId

QueryIsLast(f) ==
    \A i \in DOMAIN calls[f] : calls[f][i].op \in QueryOps => i = Len(calls[f])

OnePass(f, waits) ==
    IF ~account[f].connected
    THEN /\ Count(f, "deploy") = (IF account[f].deployed THEN 0 ELSE 1)
         /\ Count(f, "waitConnected") = waits
         /\ QueryIsLast(f)
    ELSE /\ Count(f, "deploy") = 0
         /\ Count(f, "waitConnected") = 0

C9_Original == \A f \in Flows : GotAccount(f) => OnePass(f, 1)

\* C9 as amended: exactly one waitConnected call unless the deploy call of
\* the pass failed, and then none
C9_OneRemediationPass ==
    \A f \in Flows :
        GotAccount(f) => OnePass(f, IF AllOk(f, "deploy") THEN 1 ELSE 0)

\* one flow went through a whole pass and its query failed, the other saw the
\* account connected
C9_Witness ==
    \E f, g \in Flows :
        /\ GotAccount(f) /\ GotAccount(g)
        /\ Ops(f) = <<"getAccount", "deploy", "waitConnected", "getHistoryOrdersByTimeRange">>
        /\ ~calls[f][4].ok
        /\ account[g].connected
        /\ Len(calls[g]) = 2

(***************************************************************************)
(* C10.  A connect request whose server or login is not a non-empty        *)
(* string, or whose password is empty or missing, is answered 400 and      *)
(* issues no remote call.                                                  *)
(***************************************************************************)
NonEmptyString(v) == IsString(v) /\ v.s # <<>>

C10_InvalidRejected ==
    \A f \in Flows :
        ( /\ kind[f] = "connect"
          /\ \/ ~NonEmptyString(req[f].server)
             \/ ~NonEmptyString(req[f].login)
             \/ ~Truthy(req[f].password) )
        => /\ calls[f] = <<>>
           /\ Responded(f)
           /\ response[f].status = 400

(***************************************************************************)
(* C11: in a connect flow a failed getAccounts is not fatal, the flow goes *)
(* on to createAccount as if no account matched; a failed createAccount is *)
(* fatal, the flow answers 500 with success false and issues no further    *)
(* call; a failure of any other stage is not swallowed either.             *)
(***************************************************************************)
FailedAt(f, i) == ~calls[f][i].ok

NextCallIs(f, i, op) ==
    IF i < Len(calls[f]) THEN calls[f][i + 1].op = op
    ELSE pc[f] = op /\ ~Responded(f)

FatalAt(f, i) ==
    /\ i = Len(calls[f])
    /\ Responded(f)
    /\ response[f].status = 500
    /\ ~response[f].success

C11_LookupSwallowedCreateFatal ==
    \A f \in Flows : kind[f] = "connect" =>
        \A i \in DOMAIN calls[f] : FailedAt(f, i) =>
            IF calls[f][i].op = "getAccounts"
            THEN NextCallIs(f, i, "createAccount")
            ELSE FatalAt(f, i)

C11_Witness ==
    \E f \in Flows, g \in Flows :
        /\ f # g
        /\ kind[f] = "connect" /\ kind[g] = "connect"
        /\ Len(calls[f]) >= 2 /\ Len(calls[g]) = 2
        /\ FailedAt(f, 1) /\ calls[f][2].op = "createAccount" /\ ~FailedAt(f, 2)
        /\ response[f].success
        /\ calls[g][2].op = "createAccount" /\ FailedAt(g, 2) /\ FatalAt(g, 2)

(***************************************************************************)
(* C12: when every remote call settles, waitConnected at the latest on its *)
(* timeout, every connect, account-info, history and disconnect flow that  *)
(* is in flight eventually sends a response, whether or not the account    *)
(* ever becomes connected.                                                 *)
(***************************************************************************)
C12_EveryFlowResponds ==
    \A f \in Flows : InFlight(f) ~> (Responded(f) /\ sent[f] >= 1)

\* a flow that answered after its waitConnected timed out on an account that
\* is still not connected
C12_Witness ==
    \E f \in Flows :
        /\ Responded(f)
        /\ sent[f] = 1
        /\ calls[f] # <<>>
        /\ calls[f][Len(calls[f])].op = "waitConnected"
        /\ ~calls[f][Len(calls[f])].ok
        /\ ~accounts[account[f].id].connected

(***************************************************************************)
(* C13: a failed account-info or history request answers 400 exactly when  *)
(* accountId is missing, 404 exactly when the account is not found, and    *)
(* 500 for every other failure: a rejected deploy or a waitConnected       *)
(* timeout during remediation, and a failed query.                         *)
(***************************************************************************)
ResolvedNothing(f) ==
    /\ Len(calls[f]) = 1
    /\ calls[f][1].op = "getAccount"
    /\ calls[f][1].ok
    /\ account[f] = NoAccount

C13_StatusByStage ==
    \A f \in Flows :
        (kind[f] \in {"info", "history"} /\ Responded(f) /\ ~response[f].success) =>
            /\ response[f].status = 400 <=> MissingId(req[f].accountId)
            /\ response[f].status = 404 <=> ResolvedNothing(f)
            /\ response[f].status \in {400, 404, 500}

(***************************************************************************)
(* C14: a disconnect request for an existing account issues exactly one    *)
(* undeploy call whatever the account's deployment state; a rejected       *)
(* undeploy is answered 500 with success false, never as success; and when *)
(* the undeploy succeeds the account is Undeployed.                        *)
(***************************************************************************)
DisconnectOf(f) == kind[f] = "disconnect" /\ account[f] # NoAccount

UndeployedOnce(f) ==
    /\ Count(f, "undeploy") = (IF Responded(f) THEN 1 ELSE 0)
    /\ ~Responded(f) => pc[f] = "undeploy"
    /\ Responded(f) =>
          /\ sent[f] = 1
          /\ response[f].success <=> calls[f][Len(calls[f])].ok
          /\ ~response[f].success => response[f].status = 500

UndeployLeavesUndeployed(f) ==
    (DisconnectOf(f) /\ pc[f] = "undeploy" /\ pc'[f] = "done" /\ response'[f].success) =>
        /\ accounts'[account[f].id].state = "UNDEPLOYED"
        /\ ~accounts'[account[f].id].connected

C14_DisconnectUndeploysOnce ==
    /\ [](\A f \in Flows : DisconnectOf(f) => UndeployedOnce(f))
    /\ [][\A f \in Flows : UndeployLeavesUndeployed(f)]_vars

\* two disconnects that succeeded, one that found the account deployed and
\* one that found it not deployed
C14_Witness ==
    \E f \in Flows, g \in Flows :
        /\ DisconnectOf(f) /\ DisconnectOf(g)
        /\ Responded(f) /\ Responded(g)
        /\ response[f].success /\ response[g].success
        /\ account[f].deployed /\ ~account[g].deployed
        /\ accounts[account[f].id].state = "UNDEPLOYED"

(***************************************************************************)
(* C15: when the lookup of a connect flow finds an account for the         *)
(* requested (server ignoring case, login), the flow does not depend on    *)
(* the password: it issues no createAccount, the only call that carries    *)
(* the password, and two flows whose requests differ only in the password, *)
(* which were handed the same account with the same remote outcomes,       *)
(* issue the same calls and send the same response.                        *)
(***************************************************************************)
FoundExisting(f) ==
    /\ ValidConnect(f)
    /\ calls[f] # <<>>
    /\ calls[f][1].ok
    /\ matchesAtLookup[f] >= 1

DifferOnlyInPassword(b1, b2) ==
    /\ b1.password # b2.password
    /\ [b1 EXCEPT !.password = b2.password] = b2

Outcomes(f) == [i \in DOMAIN calls[f] |-> calls[f][i].ok]

Identity(acc) == <<acc.id, acc.server, acc.login>>

StepOf(f) == InFlight(f) /\ pc'[f] # pc[f]

AccountsKept ==
    /\ Len(accounts') >= Len(accounts)
    /\ \A i \in DOMAIN accounts : Identity(accounts'[i]) = Identity(accounts[i])
    /\ \A f \in Flows : StepOf(f) =>
          /\ Len(accounts') > Len(accounts) =>
                kind[f] = "connect" /\ pc[f] = "createAccount"
          /\ kind[f] = "disconnect" =>
                \A i \in DOMAIN accounts : i # account[f].id => accounts'[i] = accounts[i]
    /\ (\A f \in Flows : ~StepOf(f)) => Len(accounts') = Len(accounts)

C16_NoAccountRemoved == [][AccountsKept]_vars

\* an account a connect flow created and a disconnect flow then undeployed
\* is still there
C16_Witness ==
    \E f \in Flows, g \in Flows :
        /\ kind[f] = "connect" /\ CountOk(f, "createAccount") = 1
        /\ kind[g] = "disconnect" /\ CountOk(g, "undeploy") = 1
        /\ account[g].id = account[f].id
        /\ Known(account[f].id)
        /\ accounts[account[f].id].state = "UNDEPLOYED"

(***************************************************************************)
(* C17: the query a history flow sends has startTime = now minus 30 days   *)
(* when startDate is omitted, endTime = now when endDate is omitted, and   *)
(* limit = 1000; a supplied startDate or endDate is the time sent; a range *)
(* whose start is after its end is sent all the same, and what the remote  *)
(* service returns for it is answered with success true.                   *)
(***************************************************************************)
SentHistoryQuery(f) ==
    /\ kind[f] = "history"
    /\ Count(f, "getHistoryOrdersByTimeRange") = 1

\* the day a supplied date denotes
Day(d) ==
    CASE d = Str(<<"5", "0">>) -> 50
      [] d = Str(<<"2", "0">>) -> 20

C17_HistoryQuery ==
    \A f \in Flows : SentHistoryQuery(f) =>
        /\ sentQuery[f].limit = 1000
        /\ sentQuery[f].startTime =
              (IF req[f].startDate = Undefined THEN Now - 30 ELSE Day(req[f].startDate))
        /\ sentQuery[f].endTime =
              (IF req[f].endDate = Undefined THEN Now ELSE Day(req[f].endDate))
        /\ CountOk(f, "getHistoryOrdersByTimeRange") = 1 =>
              /\ response[f].success
              /\ response[f].status = 200
              /\ response[f].info = account[f].id
              /\ "history" \in response[f].fields

\* one flow sent the default range, another a range that starts after it
\* ends and was answered with success
C17_Witness ==
    \E f \in Flows, g \in Flows :
        /\ SentHistoryQuery(f) /\ SentHistoryQuery(g)
        /\ req[f].startDate = Undefined /\ req[f].endDate = Undefined
        /\ sentQuery[f] = [startTime |-> 10, endTime |-> 40, limit |-> 1000]
        /\ sentQuery[g].startTime > sentQuery[g].endTime
        /\ response[g].success

(***************************************************************************)
(* C18 as stated: every response of the four endpoints, on success and on  *)
(* every failure path, carries both a success field and a message field.   *)
(***************************************************************************)
C18_Original ==
    \A f \in Flows : Responded(f) => {"success", "message"} \subseteq response[f].fields

(***************************************************************************)
(* C18 as amended: every response of the four endpoints carries a boolean  *)
(* success field; a success response carries a message field and a failure *)
(* response carries an error field in its place.                           *)
(***************************************************************************)
C18_SuccessAndText ==
    \A f \in Flows : Responded(f) =>
        /\ "success" \in response[f].fields
        /\ response[f].success \in BOOLEAN
        /\ response[f].success <=> response[f].status = 200
        /\ IF response[f].success
           THEN "message" \in response[f].fields /\ "error" \notin response[f].fields
           ELSE "error" \in response[f].fields /\ "message" \notin response[f].fields

\* a success response next to a failure response
C18_Witness ==
    \E f \in Flows, g \in Flows :
        /\ Responded(f) /\ Responded(g)
        /\ response[f].success /\ "message" \in response[f].fields
        /\ ~response[g].success /\ response[g].status = 500
        /\ "error" \in response[g].fields

(***************************************************************************)
(* C19 as stated: every request flow sends at most one response, and a     *)
(* success response is never sent after a stage of that flow has failed.   *)
(***************************************************************************)
OneResponse(f) ==
    /\ sent[f] <= 1
    /\ Responded(f) <=> sent[f] = 1
    /\ InFlight(f) => sent[f] = 0

C19_Original ==
    \A f \in Flows :
        /\ OneResponse(f)
        /\ (Responded(f) /\ response[f].success) =>
              \A i \in DOMAIN calls[f] : calls[f][i].ok

(***************************************************************************)
(* C19 as amended: every request flow sends at most one response, exactly  *)
(* one once it has ended, and a success response is never sent after a     *)
(* stage of that flow has failed, the account listing of a connect flow    *)
(* excepted, whose failure is swallowed.                                   *)
(***************************************************************************)
C19_OneResponse ==
    \A f \in Flows :
        /\ OneResponse(f)
        /\ (Responded(f) /\ response[f].success) =>
              \A i \in DOMAIN calls[f] :
                  calls[f][i].ok \/ (kind[f] = "connect" /\ calls[f][i].op = "getAccounts")

\* a connect flow answered success after its listing failed, and another
\* flow answered its one failure response from an inner handler
C19_Witness ==
    \E f \in Flows, g \in Flows :
        /\ kind[f] = "connect" /\ Responded(f) /\ response[f].success
        /\ ~calls[f][1].ok
        /\ sent[f] = 1
        /\ Responded(g) /\ ~response[g].success /\ sent[g] = 1
        /\ calls[g] # <<>> /\ calls[g][Len(calls[g])].op \in {"deploy", "waitConnected"}

(***************************************************************************)
(* C20: whenever a connect flow answers success, the accountId it answers  *)
(* is the id of an account of the remote service whose login equals the    *)
(* requested login and whose server equals the requested server ignoring   *)
(* case, and the flow's waitConnected returned successfully before the     *)
(* response; also when other flows interleave with it.                     *)
(***************************************************************************)
ConnectSucceeded(f) == kind[f] = "connect" /\ Responded(f) /\ response[f].success

WaitReturned(f) ==
    \E i \in DOMAIN calls[f] :
        /\ calls[f][i].op = "waitConnected"
        /\ calls[f][i].ok
        /\ calls[f][i].id = response[f].accountId
        /\ i < Len(calls[f])

C20_SuccessNamesRequestedAccount ==
    \A f \in Flows : ConnectSucceeded(f) =>
        /\ response[f].accountId # NoId
        /\ Known(response[f].accountId)
        /\ accounts[response[f].accountId].id = response[f].accountId
        /\ Equivalent(accounts[response[f].accountId], req[f])
        /\ WaitReturned(f)

\* a connect flow that succeeded although a disconnect of the same account
\* ran alongside it
C20_Witness ==
    \E f \in Flows, g \in Flows :
        /\ ConnectSucceeded(f)
        /\ overlapped[f]
        /\ kind[g] = "disconnect"
        /\ CountOk(g, "undeploy") = 1
        /\ account[g].id = response[f].accountId
        /\ Equivalent(accounts[response[f].accountId], req[f])

====
